---- MODULE Spec2Model ----
(***************************************************************************)
(* Counter race harness of the repository: two pthread workers contend on  *)
(* one shared counter under one mutex, the main thread creates and joins   *)
(* them.  Four programs implement the pattern:                             *)
(*   pthread_mutex_demo  (src/unnamed/part_004)                            *)
(*   hack03              (src/unnamed/part_000)                            *)
(*   generic02           (src/unnamed/part_005)                            *)
(*   comprehensive       (src/unnamed/part_002, demonstrate_threading_mutex)*)
(* Every statement that touches the counter or the mutex is one step; a    *)
(* counter++ is a load followed by a store.                                *)
(***************************************************************************)
EXTENDS Integers, Sequences, FiniteSets, TLC

\* ---------------------------------------------------------------- bounds
MaxN == 2
MaxRuns == 2
MaxTerms == 10
MaxBuf == 4
MaxOut == 3
MaxInput == 4
MaxCleanups == 2

\* ------------------------------------------------------------- constants
NUM_THREADS == 2
EXIT_SUCCESS == 0
EXIT_FAILURE == 1
NoOwner == -1
Running == -1
INT_MAX == 2147483647
LOOP_ITERATIONS == 33554431
HACK03_ITERATIONS == 268435455
INT_MIN == -2147483647 - 1

Workers == 0 .. (NUM_THREADS - 1)
MainT == NUM_THREADS

Programs == {"pthread_mutex_demo", "hack03", "generic02", "comprehensive"}

VARIABLES
    prog,               \* which program runs
    N,                  \* LOOP_ITERATIONS / THREAD_WORK_ITERATIONS / loop literal
    initFails,          \* pthread_mutex_init returns non-zero
    createFailAt,       \* k > 0: the k-th pthread_create returns non-zero
    shared_counter,     \* shared_counter / counter
    mutex_state,        \* counter_mutex / lock / global_mutex: uninit, valid, destroyed
    mutex_owner,        \* thread holding the mutex, NoOwner when unlocked
    mutex_initialized,  \* flag of pthread_mutex_demo
    pcMain,             \* position of main
    idx,                \* loop index i of main's create and join loops
    retval,             \* value main is about to return
    exitStatus,         \* termination status of the process, Running while alive
    reported,           \* {} or {v}: value printed as the final counter
    joined,             \* main came out of its join loop
    pcW,                \* position of each worker
    loopI,              \* loop index i of each worker
    tmp,                \* value loaded by a worker for counter++ / counter--
    observed,           \* {} or {v}: value printed right after the lock call
    hist,               \* stores to the counter made by workers: <<worker, new value>>
    accesses,           \* every access to the counter so far, with its circumstances
    lockCalls,          \* per worker: pthread_mutex_lock calls that returned 0
    unlockCalls,        \* per worker: pthread_mutex_unlock calls
    lockFailed,         \* workers whose pthread_mutex_lock call returned an error
    runNo,              \* number of the current invocation of the program
    firstFinal,         \* {} or {v}: counter at completion of the first invocation
    mem,                \* heap demonstration: allocation state of the running program
    series,             \* generate_series: its arguments, locals and printed terms
    syscmd,             \* safe_system_command: argument, system() result, return
    pipecmd,            \* execute_command_with_output: arguments, locals, buffer
    minmax,             \* the min/max expressions: operands and results
    menu,               \* bit_operations main: its locals, stdin, what it ran
    lifecycle,          \* initialize_mutex and cleanup_resources called in sequence
    jobs                \* simple job demo: main, the two job threads, the messages

inputs == <<prog, N, initFails, createFailAt>>
mutexVars == <<mutex_state, mutex_owner, mutex_initialized>>
mainVars == <<pcMain, idx, retval, exitStatus, reported, joined>>
workerVars == <<pcW, loopI, tmp, observed>>
ghostVars == <<hist, accesses>>
lockGhost == <<lockCalls, unlockCalls, lockFailed>>
runVars == <<runNo, firstFinal>>
harnessVars == <<inputs, shared_counter, mutexVars, mainVars, workerVars, ghostVars,
                 runVars, lockGhost>>
\* state of the single-threaded demonstration programs
demoVars == <<mem, series, syscmd, pipecmd, minmax, menu, lifecycle, jobs>>
vars == <<harnessVars, demoVars>>

\* ------------------------------------------------------ program structure
\* the program calls pthread_mutex_init (comprehensive uses PTHREAD_MUTEX_INITIALIZER)
HasInit(p) == p \in {"pthread_mutex_demo", "hack03", "generic02"}
\* the program tests the result of pthread_create
ChecksCreate(p) == p \in {"pthread_mutex_demo", "comprehensive"}
\* the program tests the result of pthread_mutex_lock
ChecksLock(p) == p = "pthread_mutex_demo"
\* main prints the counter before creating the workers
PrintsInitial(p) == p \in {"pthread_mutex_demo", "comprehensive"}
\* main prints the counter after joining the workers
PrintsFinal(p) == p \in {"pthread_mutex_demo", "comprehensive"}
\* main is declared void main(): its termination status is unspecified
VoidMain(p) == p \in {"hack03", "generic02"}

\* faulty variant: the second worker's loop increments too
Delta_NoDecrement(p, w) ==
    IF p = "generic02" THEN 0 ELSE 1

\* faulty variant: the loop of thread_func increments the counter
Delta_JobLoopIncrements(p, w) ==
    IF w = 0 \/ p = "generic02" THEN 1 ELSE -1

\* what one loop iteration of worker w adds to the counter
Delta(p, w) ==
    IF p = "generic02" THEN 0
    ELSE IF w = 0 THEN 1 ELSE -1

\* first position of main
FirstPc(p) ==
    IF p = "comprehensive" THEN "reset"
    ELSE IF PrintsInitial(p) THEN "print_initial"
    ELSE "init"

\* state of the mutex object when the program starts
InitialMutex(p) == IF HasInit(p) THEN "uninit" ELSE "valid"

CSPcs == {"cs_observe", "cs_initial_load", "cs_initial_store", "cs_loop",
          "cs_loop_store", "cs_final", "cs_unlock"}
InCS(w) == pcW[w] \in CSPcs
Alive(w) == pcW[w] \notin {"NotCreated", "Terminated"}
ProcessAlive == exitStatus = Running

\* record of one access to the counter
Access(t, k) ==
    [by |-> t, kind |-> k, held |-> (mutex_owner = t),
     alone |-> (\A w \in Workers : ~Alive(w))]

\* ------------------------------------------------------------------ Init
\* static initialisers of the globals and the start of main
HarnessInit ==
    /\ prog \in Programs
    /\ N \in 0 .. MaxN
    /\ initFails \in (IF HasInit(prog) THEN BOOLEAN ELSE {FALSE})
    /\ createFailAt \in 0 .. NUM_THREADS
    /\ shared_counter = 0
    /\ mutex_state = InitialMutex(prog)
    /\ mutex_owner = NoOwner
    /\ mutex_initialized = 0
    /\ pcMain = FirstPc(prog)
    /\ idx = 0
    /\ retval = EXIT_SUCCESS
    /\ exitStatus = Running
    /\ reported = {}
    /\ joined = FALSE
    /\ pcW = [w \in Workers |-> "NotCreated"]
    /\ loopI = [w \in Workers |-> 0]
    /\ tmp = [w \in Workers |-> 0]
    /\ observed = [w \in Workers |-> {}]
    /\ hist = << >>
    /\ accesses = {}
    /\ lockCalls = [w \in Workers |-> 0]
    /\ unlockCalls = [w \in Workers |-> 0]
    /\ lockFailed = {}
    /\ runNo = 1
    /\ firstFinal = {}

\* no counter race program is running
HarnessIdle ==
    /\ prog = "none" /\ N = 0 /\ initFails = FALSE /\ createFailAt = 0
    /\ shared_counter = 0
    /\ mutex_state = "uninit" /\ mutex_owner = NoOwner /\ mutex_initialized = 0
    /\ pcMain = "idle" /\ idx = 0 /\ retval = EXIT_SUCCESS /\ exitStatus = Running
    /\ reported = {} /\ joined = FALSE
    /\ pcW = [w \in Workers |-> "NotCreated"]
    /\ loopI = [w \in Workers |-> 0]
    /\ tmp = [w \in Workers |-> 0]
    /\ observed = [w \in Workers |-> {}]
    /\ hist = << >> /\ accesses = {}
    /\ lockCalls = [w \in Workers |-> 0]
    /\ unlockCalls = [w \in Workers |-> 0]
    /\ lockFailed = {}
    /\ runNo = 1 /\ firstFinal = {}

\* a demonstration program that is not the one running
Idle == [pc |-> "idle"]

\* ------------------------------------------------------------------ main
\* comprehensive: shared_counter = 0 before the workers are created
reset_counter ==
    /\ ProcessAlive /\ pcMain = "reset"
    /\ shared_counter' = 0
    /\ accesses' = accesses \cup {Access(MainT, "write")}
    /\ pcMain' = "print_initial"
    /\ UNCHANGED <<demoVars, inputs, mutexVars, idx, retval, exitStatus, reported, joined,
                   workerVars, hist, runVars, lockGhost>>

\* printf of the initial counter value
print_initial ==
    /\ ProcessAlive /\ pcMain = "print_initial"
    /\ accesses' = accesses \cup {Access(MainT, "read")}
    /\ pcMain' = IF HasInit(prog) THEN "init" ELSE "create"
    /\ UNCHANGED <<demoVars, inputs, shared_counter, mutexVars, idx, retval, exitStatus,
                   reported, joined, workerVars, hist, runVars, lockGhost>>

\* pthread_mutex_init and the test of its result
initialize_mutex ==
    /\ ProcessAlive /\ pcMain = "init"
    /\ IF initFails
       THEN /\ pcMain' = IF VoidMain(prog) THEN "finish" ELSE "return"
            /\ retval' = EXIT_FAILURE
            /\ UNCHANGED mutexVars
       ELSE /\ mutex_state' = "valid"
            /\ mutex_owner' = NoOwner
            /\ mutex_initialized' = IF prog = "pthread_mutex_demo" THEN 1 ELSE mutex_initialized
            /\ pcMain' = "create"
            /\ UNCHANGED retval
    /\ UNCHANGED <<demoVars, inputs, shared_counter, idx, exitStatus, reported, joined,
                   workerVars, ghostVars, runVars, lockGhost>>

\* one pthread_create of the create loop
create_thread ==
    /\ ProcessAlive /\ pcMain = "create"
    /\ IF createFailAt = idx + 1
       THEN IF ChecksCreate(prog)
            THEN /\ pcMain' = IF prog = "pthread_mutex_demo" THEN "cleanup" ELSE "return"
                 /\ retval' = IF prog = "pthread_mutex_demo" THEN EXIT_FAILURE ELSE retval
                 /\ UNCHANGED <<idx, pcW>>
            ELSE /\ pcMain' = IF idx + 1 = NUM_THREADS THEN "join" ELSE "create"
                 /\ idx' = IF idx + 1 = NUM_THREADS THEN 0 ELSE idx + 1
                 /\ UNCHANGED <<retval, pcW>>
       ELSE /\ pcW' = [pcW EXCEPT ![idx] = "Started"]
            /\ pcMain' = IF idx + 1 = NUM_THREADS THEN "join" ELSE "create"
            /\ idx' = IF idx + 1 = NUM_THREADS THEN 0 ELSE idx + 1
            /\ UNCHANGED retval
    /\ UNCHANGED <<demoVars, inputs, shared_counter, mutexVars, exitStatus, reported, joined,
                   loopI, tmp, observed, ghostVars, runVars, lockGhost>>

\* position of main after the join loop
AfterJoin(p) == IF PrintsFinal(p) THEN "report" ELSE "finish"

\* faulty variant: the join returns without waiting for the thread
join_thread_NoWait ==
    /\ ProcessAlive /\ pcMain = "join"
    /\ pcW[idx] # "NotCreated"
    /\ pcMain' = IF idx + 1 = NUM_THREADS THEN AfterJoin(prog) ELSE "join"
    /\ joined' = (idx + 1 = NUM_THREADS)
    /\ idx' = IF idx + 1 = NUM_THREADS THEN 0 ELSE idx + 1
    /\ UNCHANGED <<demoVars, inputs, shared_counter, mutexVars, retval, exitStatus, reported,
                   workerVars, ghostVars, runVars, lockGhost>>

\* one pthread_join of the join loop: returns when the thread has terminated
join_thread ==
    /\ ProcessAlive /\ pcMain = "join"
    /\ pcW[idx] = "Terminated"
    /\ pcMain' = IF idx + 1 = NUM_THREADS THEN AfterJoin(prog) ELSE "join"
    /\ joined' = (idx + 1 = NUM_THREADS)
    /\ idx' = IF idx + 1 = NUM_THREADS THEN 0 ELSE idx + 1
    /\ UNCHANGED <<demoVars, inputs, shared_counter, mutexVars, retval, exitStatus, reported,
                   workerVars, ghostVars, runVars, lockGhost>>

\* pthread_join on a thread id that pthread_create never set (its result was
\* not tested): the call returns an error at once or the process is killed
join_invalid ==
    /\ ProcessAlive /\ pcMain = "join"
    /\ pcW[idx] = "NotCreated"
    /\ \/ /\ pcMain' = IF idx + 1 = NUM_THREADS THEN AfterJoin(prog) ELSE "join"
          /\ joined' = (idx + 1 = NUM_THREADS)
          /\ idx' = IF idx + 1 = NUM_THREADS THEN 0 ELSE idx + 1
          /\ UNCHANGED exitStatus
       \/ /\ pcMain' = "exited"
          /\ exitStatus' = EXIT_FAILURE
          /\ UNCHANGED <<idx, joined>>
    /\ UNCHANGED <<demoVars, inputs, shared_counter, mutexVars, retval, reported,
                   workerVars, ghostVars, runVars, lockGhost>>

\* printf of the final counter value
report_final ==
    /\ ProcessAlive /\ pcMain = "report"
    /\ reported' = {shared_counter}
    /\ accesses' = accesses \cup {Access(MainT, "read")}
    /\ pcMain' = IF prog = "pthread_mutex_demo" THEN "cleanup" ELSE "return"
    /\ UNCHANGED <<demoVars, inputs, shared_counter, mutexVars, idx, retval, exitStatus, joined,
                   workerVars, hist, runVars, lockGhost>>

\* cleanup_resources: pthread_mutex_destroy when mutex_initialized; destroying
\* a locked mutex is undefined: it is refused (EBUSY) or the mutex is destroyed
cleanup_resources ==
    /\ ProcessAlive /\ pcMain = "cleanup"
    /\ IF mutex_initialized = 1
       THEN /\ mutex_initialized' = 0
            /\ \/ mutex_state' = "destroyed"
               \/ mutex_owner # NoOwner /\ mutex_state' = mutex_state
            /\ UNCHANGED mutex_owner
       ELSE UNCHANGED mutexVars
    /\ pcMain' = "return"
    /\ UNCHANGED <<demoVars, inputs, shared_counter, idx, retval, exitStatus, reported, joined,
                   workerVars, ghostVars, runVars, lockGhost>>

\* faulty variant: main returns EXIT_FAILURE on every path
main_return_AlwaysFailure ==
    /\ ProcessAlive /\ pcMain = "return"
    /\ pcMain' = "exited"
    /\ exitStatus' = EXIT_FAILURE
    /\ UNCHANGED <<demoVars, inputs, shared_counter, mutexVars, idx, retval, reported, joined,
                   workerVars, ghostVars, runVars, lockGhost>>

\* return from int main: the process ends with the returned value
main_return ==
    /\ ProcessAlive /\ pcMain = "return"
    /\ pcMain' = "exited"
    /\ exitStatus' = retval
    /\ UNCHANGED <<demoVars, inputs, shared_counter, mutexVars, idx, retval, reported, joined,
                   workerVars, ghostVars, runVars, lockGhost>>

\* label done of void main: prints and falls off the end; the termination
\* status of a main that does not return int is unspecified
main_finish ==
    /\ ProcessAlive /\ pcMain = "finish"
    /\ pcMain' = "exited"
    /\ exitStatus' \in {EXIT_SUCCESS, EXIT_FAILURE}
    /\ UNCHANGED <<demoVars, inputs, shared_counter, mutexVars, idx, retval, reported, joined,
                   workerVars, ghostVars, runVars, lockGhost>>

\* --------------------------------------------------------------- workers
\* first statement of the critical section
AfterAcquire(p) == IF p = "generic02" THEN "cs_initial_load" ELSE "cs_observe"
\* statement after the printf that follows the lock call
AfterObserve(p) == IF p = "generic02" THEN "cs_loop" ELSE "cs_initial_load"
\* statement after the unconditional increment
AfterInitial(p) == IF p = "generic02" THEN "cs_observe" ELSE "cs_loop"

\* faulty variant: the lock does not exclude (the owner is not looked at)
LockAvailable_Ignored == mutex_state = "valid"

\* pthread_mutex_lock may return: the mutex is valid and nobody holds it
LockAvailable == mutex_state = "valid" /\ mutex_owner = NoOwner

\* entry of the thread function up to the call of pthread_mutex_lock
worker_start(w) ==
    /\ ProcessAlive /\ pcW[w] = "Started"
    /\ pcW' = [pcW EXCEPT ![w] = "WaitingForLock"]
    /\ UNCHANGED <<demoVars, inputs, shared_counter, mutexVars, mainVars, loopI, tmp, observed,
                   ghostVars, runVars, lockGhost>>

\* faulty variant: the worker enters without waiting for the mutex to be free
worker_lock_NoWait(w) ==
    /\ ProcessAlive /\ pcW[w] = "WaitingForLock"
    /\ mutex_state = "valid"
    /\ mutex_owner' = w
    /\ lockCalls' = [lockCalls EXCEPT ![w] = lockCalls[w] + 1]
    /\ pcW' = [pcW EXCEPT ![w] = AfterAcquire(prog)]
    /\ UNCHANGED <<demoVars, inputs, shared_counter, mutex_state, mutex_initialized, mainVars,
                   loopI, tmp, observed, ghostVars, runVars, unlockCalls, lockFailed>>

\* pthread_mutex_lock returns 0
worker_lock(w) ==
    /\ ProcessAlive /\ pcW[w] = "WaitingForLock"
    /\ LockAvailable
    /\ mutex_owner' = w
    /\ lockCalls' = [lockCalls EXCEPT ![w] = lockCalls[w] + 1]
    /\ pcW' = [pcW EXCEPT ![w] = AfterAcquire(prog)]
    /\ UNCHANGED <<demoVars, inputs, shared_counter, mutex_state, mutex_initialized, mainVars,
                   loopI, tmp, observed, ghostVars, runVars, unlockCalls, lockFailed>>

\* pthread_mutex_lock on a destroyed mutex is undefined: it returns an error
\* (the worker returns NULL when it tests the result) or it takes the mutex
worker_lock_invalid(w) ==
    /\ ProcessAlive /\ pcW[w] = "WaitingForLock"
    /\ mutex_state = "destroyed"
    /\ \/ /\ pcW' = [pcW EXCEPT ![w] = IF ChecksLock(prog) THEN "Terminated"
                                        ELSE AfterAcquire(prog)]
          /\ lockFailed' = lockFailed \cup {w}
          /\ UNCHANGED <<mutex_owner, lockCalls>>
       \/ /\ mutex_owner = NoOwner
          /\ mutex_owner' = w
          /\ lockCalls' = [lockCalls EXCEPT ![w] = lockCalls[w] + 1]
          /\ pcW' = [pcW EXCEPT ![w] = AfterAcquire(prog)]
          /\ UNCHANGED lockFailed
    /\ UNCHANGED <<demoVars, inputs, shared_counter, mutex_state, mutex_initialized, mainVars,
                   loopI, tmp, observed, ghostVars, runVars, unlockCalls>>

\* faulty variant: the result of the failed lock call is not tested
worker_lock_fails_Unchecked(w) ==
    /\ ProcessAlive /\ pcW[w] = "WaitingForLock"
    /\ ChecksLock(prog)
    /\ mutex_state = "valid"
    /\ lockFailed' = lockFailed \cup {w}
    /\ pcW' = [pcW EXCEPT ![w] = AfterAcquire(prog)]
    /\ UNCHANGED <<demoVars, inputs, shared_counter, mutexVars, mainVars,
                   loopI, tmp, observed, ghostVars, runVars, lockCalls, unlockCalls>>

\* injected fault, in the program that tests the result of the call:
\* pthread_mutex_lock on the valid mutex returns an error; the thread function
\* prints the error and returns NULL
worker_lock_fails(w) ==
    /\ ProcessAlive /\ pcW[w] = "WaitingForLock"
    /\ ChecksLock(prog)
    /\ mutex_state = "valid"
    /\ lockFailed' = lockFailed \cup {w}
    /\ pcW' = [pcW EXCEPT ![w] = "Terminated"]
    /\ UNCHANGED <<demoVars, inputs, shared_counter, mutexVars, mainVars,
                   loopI, tmp, observed, ghostVars, runVars, lockCalls, unlockCalls>>

\* printf of the counter right after the lock call
worker_observe(w) ==
    /\ ProcessAlive /\ pcW[w] = "cs_observe"
    /\ observed' = [observed EXCEPT ![w] = {shared_counter}]
    /\ accesses' = accesses \cup {Access(w, "read")}
    /\ pcW' = [pcW EXCEPT ![w] = AfterObserve(prog)]
    /\ UNCHANGED <<demoVars, inputs, shared_counter, mutexVars, mainVars, loopI, tmp, hist, runVars, lockGhost>>

\* shared_counter++ (initial increment): load
worker_initial_load(w) ==
    /\ ProcessAlive /\ pcW[w] = "cs_initial_load"
    /\ tmp' = [tmp EXCEPT ![w] = shared_counter]
    /\ accesses' = accesses \cup {Access(w, "read")}
    /\ pcW' = [pcW EXCEPT ![w] = "cs_initial_store"]
    /\ UNCHANGED <<demoVars, inputs, shared_counter, mutexVars, mainVars, loopI, observed, hist, runVars, lockGhost>>

\* shared_counter++ (initial increment): store
worker_initial_store(w) ==
    /\ ProcessAlive /\ pcW[w] = "cs_initial_store"
    /\ shared_counter' = tmp[w] + 1
    /\ hist' = Append(hist, <<w, tmp[w] + 1>>)
    /\ accesses' = accesses \cup {Access(w, "write")}
    /\ loopI' = [loopI EXCEPT ![w] = 0]
    /\ pcW' = [pcW EXCEPT ![w] = AfterInitial(prog)]
    /\ UNCHANGED <<demoVars, inputs, mutexVars, mainVars, tmp, observed, runVars, lockGhost>>

\* loop body shared_counter++ / shared_counter--: load
worker_loop_load(w) ==
    /\ ProcessAlive /\ pcW[w] = "cs_loop"
    /\ loopI[w] < N /\ Delta(prog, w) # 0
    /\ tmp' = [tmp EXCEPT ![w] = shared_counter]
    /\ accesses' = accesses \cup {Access(w, "read")}
    /\ pcW' = [pcW EXCEPT ![w] = "cs_loop_store"]
    /\ UNCHANGED <<demoVars, inputs, shared_counter, mutexVars, mainVars, loopI, observed, hist, runVars, lockGhost>>

\* loop body shared_counter++ / shared_counter--: store, then i++
worker_loop_store(w) ==
    /\ ProcessAlive /\ pcW[w] = "cs_loop_store"
    /\ shared_counter' = tmp[w] + Delta(prog, w)
    /\ hist' = Append(hist, <<w, tmp[w] + Delta(prog, w)>>)
    /\ accesses' = accesses \cup {Access(w, "write")}
    /\ loopI' = [loopI EXCEPT ![w] = loopI[w] + 1]
    /\ pcW' = [pcW EXCEPT ![w] = "cs_loop"]
    /\ UNCHANGED <<demoVars, inputs, mutexVars, mainVars, tmp, observed, runVars, lockGhost>>

\* empty loop body of thread_func: only i++
worker_loop_idle(w) ==
    /\ ProcessAlive /\ pcW[w] = "cs_loop"
    /\ loopI[w] < N /\ Delta(prog, w) = 0
    /\ loopI' = [loopI EXCEPT ![w] = loopI[w] + 1]
    /\ UNCHANGED <<demoVars, inputs, shared_counter, mutexVars, mainVars, pcW, tmp, observed,
                   ghostVars, runVars, lockGhost>>

\* faulty variant: the loop stops one iteration early
worker_loop_exit_Early(w) ==
    /\ ProcessAlive /\ pcW[w] = "cs_loop"
    /\ ~(loopI[w] < N - 1)
    /\ pcW' = [pcW EXCEPT ![w] = "cs_final"]
    /\ UNCHANGED <<demoVars, inputs, shared_counter, mutexVars, mainVars, loopI, tmp, observed,
                   ghostVars, runVars, lockGhost>>

\* loop condition i < N is false
worker_loop_exit(w) ==
    /\ ProcessAlive /\ pcW[w] = "cs_loop"
    /\ ~(loopI[w] < N)
    /\ pcW' = [pcW EXCEPT ![w] = "cs_final"]
    /\ UNCHANGED <<demoVars, inputs, shared_counter, mutexVars, mainVars, loopI, tmp, observed,
                   ghostVars, runVars, lockGhost>>

\* faulty variant: the mutex is released before the counter is printed
worker_final_AfterUnlock(w) ==
    /\ ProcessAlive /\ pcW[w] = "cs_final"
    /\ mutex_owner' = NoOwner
    /\ accesses' = accesses \cup {[by |-> w, kind |-> "read", held |-> FALSE,
                                   alone |-> FALSE]}
    /\ pcW' = [pcW EXCEPT ![w] = "cs_unlock"]
    /\ UNCHANGED <<demoVars, inputs, shared_counter, mutex_state, mutex_initialized, mainVars,
                   loopI, tmp, observed, hist, runVars, lockGhost>>

\* printf of the counter after the loop
worker_final(w) ==
    /\ ProcessAlive /\ pcW[w] = "cs_final"
    /\ accesses' = accesses \cup {Access(w, "read")}
    /\ pcW' = [pcW EXCEPT ![w] = "cs_unlock"]
    /\ UNCHANGED <<demoVars, inputs, shared_counter, mutexVars, mainVars, loopI, tmp, observed,
                   hist, runVars, lockGhost>>

\* faulty variant: the worker never releases the mutex
worker_unlock_Forgets(w) ==
    /\ ProcessAlive /\ pcW[w] = "cs_unlock"
    /\ pcW' = [pcW EXCEPT ![w] = "Released"]
    /\ UNCHANGED <<demoVars, inputs, shared_counter, mutexVars, mainVars,
                   loopI, tmp, observed, ghostVars, runVars, lockGhost>>

\* pthread_mutex_unlock
worker_unlock(w) ==
    /\ ProcessAlive /\ pcW[w] = "cs_unlock"
    /\ mutex_owner' = IF mutex_owner = w THEN NoOwner ELSE mutex_owner
    /\ unlockCalls' = [unlockCalls EXCEPT ![w] = unlockCalls[w] + 1]
    /\ pcW' = [pcW EXCEPT ![w] = "Released"]
    /\ UNCHANGED <<demoVars, inputs, shared_counter, mutex_state, mutex_initialized, mainVars,
                   loopI, tmp, observed, ghostVars, runVars, lockCalls, lockFailed>>

\* return NULL of the thread function
worker_exit(w) ==
    /\ ProcessAlive /\ pcW[w] = "Released"
    /\ pcW' = [pcW EXCEPT ![w] = "Terminated"]
    /\ UNCHANGED <<demoVars, inputs, shared_counter, mutexVars, mainVars, loopI, tmp, observed,
                   ghostVars, runVars, lockGhost>>

\* ------------------------------------------------------ next invocation
\* the program is started again with the same configuration: all globals
\* get their static initial values; the counter the first invocation ended
\* with (when it came out of its join loop) is remembered
Rerun ==
    /\ pcMain = "exited" /\ runNo < MaxRuns
    /\ runNo' = runNo + 1
    /\ firstFinal' = IF runNo = 1 /\ joined THEN {shared_counter} ELSE firstFinal
    /\ shared_counter' = 0
    /\ mutex_state' = InitialMutex(prog)
    /\ mutex_owner' = NoOwner
    /\ mutex_initialized' = 0
    /\ pcMain' = FirstPc(prog)
    /\ idx' = 0
    /\ retval' = EXIT_SUCCESS
    /\ exitStatus' = Running
    /\ reported' = {}
    /\ joined' = FALSE
    /\ pcW' = [w \in Workers |-> "NotCreated"]
    /\ loopI' = [w \in Workers |-> 0]
    /\ tmp' = [w \in Workers |-> 0]
    /\ observed' = [w \in Workers |-> {}]
    /\ hist' = << >>
    /\ accesses' = {}
    /\ lockCalls' = [w \in Workers |-> 0]
    /\ unlockCalls' = [w \in Workers |-> 0]
    /\ lockFailed' = {}
    /\ UNCHANGED <<demoVars, inputs>>

\* ------------------------------------------------- heap demonstrations
\* programs that allocate: misc/generic.c (pass_func), c_language_features_demo
\* (create_heap_integer) and comprehensive_c_demo (create_heap_value)
MemPrograms == {"generic", "c_features", "comprehensive_basic"}

\* null pointer
NULL == 0
\* the value the programs store in the allocation
HeapVal == 150

MemInit ==
    \E p \in MemPrograms, f \in BOOLEAN :
        mem = [pc |-> "alloc", prog |-> p, mallocFails |-> f, ptr |-> NULL,
               live |-> {}, value |-> 0, frees |-> 0, overrun |-> FALSE,
               status |-> Running]

memOthers == <<harnessVars, series, syscmd, pipecmd, minmax, menu, lifecycle, jobs>>

\* pass_func / create_heap_integer / create_heap_value: malloc through the
\* wrapper, then the store of val
mem_alloc ==
    /\ mem.pc = "alloc"
    /\ IF mem.mallocFails
       THEN IF mem.prog = "comprehensive_basic"
            THEN \* safe_malloc: exit(EXIT_FAILURE)
                 mem' = [mem EXCEPT !.pc = "exited", !.status = EXIT_FAILURE]
            ELSE IF mem.prog = "generic"
            THEN \* *k = val through a null pointer: the process is killed
                 mem' = [mem EXCEPT !.pc = "exited", !.status = EXIT_FAILURE]
            ELSE \* create_heap_integer returns NULL
                 mem' = [mem EXCEPT !.pc = "use"]
       ELSE mem' = [mem EXCEPT !.pc = "use", !.ptr = 1, !.live = {1},
                               !.value = HeapVal,
                               \* malloc_t(1) holds one byte, *k = val stores an int
                               !.overrun = (mem.prog = "generic")]
    /\ UNCHANGED memOthers

\* printf of the value and its increment
mem_use ==
    /\ mem.pc = "use"
    /\ IF mem.ptr = NULL
       THEN mem' = [mem EXCEPT !.pc = "return"]
       ELSE mem' = [mem EXCEPT !.value = mem.value + 1,
                               !.pc = IF mem.prog = "generic" THEN "return" ELSE "free"]
    /\ UNCHANGED memOthers

\* free(heap_value)
mem_free ==
    /\ mem.pc = "free"
    /\ mem' = [mem EXCEPT !.live = mem.live \ {mem.ptr},
                          !.frees = mem.frees + 1,
                          !.ptr = IF mem.prog = "c_features" THEN NULL ELSE mem.ptr,
                          !.pc = "return"]
    /\ UNCHANGED memOthers

\* the rest of the program up to its end
mem_return ==
    /\ mem.pc = "return"
    /\ \E st \in (IF mem.prog = "generic" THEN {EXIT_SUCCESS, EXIT_FAILURE}
                                            ELSE {EXIT_SUCCESS}) :
           \* generic.c has void main: its termination status is unspecified
           mem' = [mem EXCEPT !.pc = "exited", !.status = st]
    /\ UNCHANGED memOthers

MemStep == mem_alloc \/ mem_use \/ mem_free \/ mem_return

\* ------------------------------------------------------ generate_series
\* start values: those of demonstrate_series_generation, small ones, and
\* ones next to the limits of int
SeriesStarts == {55, 20, 100, 0, -3, 8, 1073741832, INT_MAX - 5, INT_MIN + 3}

SeriesInit ==
    \E n \in -1 .. MaxTerms, st \in SeriesStarts :
        series = [pc |-> "entry", n0 |-> n, start0 |-> st, n |-> n, start |-> st,
                  i |-> 0, out |-> << >>, invalid |-> FALSE, overflowed |-> FALSE]

seriesOthers == <<harnessVars, mem, syscmd, pipecmd, minmax, menu, lifecycle, jobs>>

\* start - 8 in int arithmetic: the value, or the wrapped value on overflow
Minus8(x) == IF x < INT_MIN + 8 THEN (x - INT_MIN) + (INT_MAX - 7) ELSE x - 8
Minus8Overflows(x) == x < INT_MIN + 8

\* start * 2 in int arithmetic: the value, or the wrapped value on overflow
Times2(x) ==
    IF x > INT_MAX \div 2 THEN 2 * ((x - INT_MAX) - 1)
    ELSE IF x < INT_MIN \div 2 THEN 2 * (x - INT_MIN)
    ELSE x * 2
Times2Overflows(x) == x > INT_MAX \div 2 \/ x < INT_MIN \div 2

\* i & 1 for i >= 0
OddIteration(i) == i % 2 = 1

\* the test n <= 0, int i = 1 and the printf of the first term
series_entry ==
    /\ series.pc = "entry"
    /\ IF series.n <= 0
       THEN series' = [series EXCEPT !.invalid = TRUE, !.pc = "done"]
       ELSE series' = [series EXCEPT !.i = 1, !.out = <<series.start>>, !.pc = "loop"]
    /\ UNCHANGED seriesOthers

\* faulty variant: the operations are taken in the other order
series_step_EvenSubtracts ==
    /\ series.pc = "loop" /\ series.n > 1
    /\ LET odd == ~OddIteration(series.i)
           next == IF odd THEN Minus8(series.start) ELSE Times2(series.start)
           ovf == IF odd THEN Minus8Overflows(series.start)
                         ELSE Times2Overflows(series.start)
       IN \/ series' = [series EXCEPT !.start = next, !.out = Append(series.out, next),
                                      !.n = series.n - 1, !.i = series.i + 1,
                                      !.overflowed = series.overflowed \/ ovf]
          \/ ovf /\ series' = [series EXCEPT !.overflowed = TRUE, !.pc = "aborted"]
    /\ UNCHANGED seriesOthers

\* one iteration of the for loop: the next term, its printf, n--, i++; signed
\* overflow is undefined: the result wraps or the operation traps
series_step ==
    /\ series.pc = "loop" /\ series.n > 1
    /\ LET odd == OddIteration(series.i)
           next == IF odd THEN Minus8(series.start) ELSE Times2(series.start)
           ovf == IF odd THEN Minus8Overflows(series.start)
                         ELSE Times2Overflows(series.start)
       IN \/ series' = [series EXCEPT !.start = next, !.out = Append(series.out, next),
                                      !.n = series.n - 1, !.i = series.i + 1,
                                      !.overflowed = series.overflowed \/ ovf]
          \/ ovf /\ series' = [series EXCEPT !.overflowed = TRUE, !.pc = "aborted"]
    /\ UNCHANGED seriesOthers

\* the loop condition n > 1 is false
series_done ==
    /\ series.pc = "loop" /\ ~(series.n > 1)
    /\ series' = [series EXCEPT !.pc = "done"]
    /\ UNCHANGED seriesOthers

SeriesStep == series_entry \/ series_step \/ series_done

\* ------------------------------------------------- safe_system_command
\* how a command can end: exit(code), or death by a signal with or without
\* a core dump
ExitCodes == {0, 1, 2, 127, 255}
Signals == {9, 11, 15}
Outcomes ==
    [kind : {"exit"}, code : ExitCodes, core : {FALSE}]
        \cup [kind : {"signal"}, code : Signals, core : BOOLEAN]

\* the wait status that system() and pclose() return for an outcome
WaitStatus(o) ==
    IF o.kind = "exit" THEN o.code * 256
    ELSE o.code + (IF o.core THEN 128 ELSE 0)

\* the macros of <sys/wait.h>
WIFEXITED(status) == status % 128 = 0
WEXITSTATUS(status) == (status \div 256) % 256

NoOutcome == [kind |-> "none", code |-> 0, core |-> FALSE]

SysInit ==
    \E isNull \in BOOLEAN :
        syscmd = [pc |-> "entry", commandNull |-> isNull, outcome |-> NoOutcome,
                  result |-> 0, executed |-> FALSE, ret |-> Running]

sysOthers == <<harnessVars, mem, series, pipecmd, minmax, menu, lifecycle, jobs>>

\* if (!command) return -1
sys_check ==
    /\ syscmd.pc = "entry"
    /\ syscmd' = IF syscmd.commandNull
                 THEN [syscmd EXCEPT !.ret = -1, !.pc = "done"]
                 ELSE [syscmd EXCEPT !.pc = "system"]
    /\ UNCHANGED sysOthers

\* result = system(command): no child could be created (-1), or the command
\* ran and ended with some outcome
sys_system ==
    /\ syscmd.pc = "system"
    /\ \/ syscmd' = [syscmd EXCEPT !.result = -1, !.pc = "classify"]
       \/ \E o \in Outcomes :
              syscmd' = [syscmd EXCEPT !.outcome = o, !.result = WaitStatus(o),
                                       !.executed = TRUE, !.pc = "classify"]
    /\ UNCHANGED sysOthers

\* faulty variant: every normal exit counts as success
sys_classify_AnyExit ==
    /\ syscmd.pc = "classify"
    /\ syscmd' = [syscmd EXCEPT
           !.pc = "done",
           !.ret = IF syscmd.result = -1 THEN -1
                   ELSE IF WIFEXITED(syscmd.result) THEN 0
                   ELSE -1]
    /\ UNCHANGED sysOthers

\* the tests on result after system() returned
sys_classify ==
    /\ syscmd.pc = "classify"
    /\ syscmd' = [syscmd EXCEPT
           !.pc = "done",
           !.ret = IF syscmd.result = -1 THEN -1
                   ELSE IF WIFEXITED(syscmd.result)
                        THEN (IF WEXITSTATUS(syscmd.result) = 0 THEN 0 ELSE -1)
                   ELSE -1]
    /\ UNCHANGED sysOthers

SysStep == sys_check \/ sys_system \/ sys_classify

\* ------------------------------------------ execute_command_with_output
\* the characters a command can write: an ordinary one, a newline, a zero byte
Chars == {"a", "nl", "nul"}
\* the content of the caller's buffer before the call
Garbage == "?"

RECURSIVE SeqsUpTo(_)
SeqsUpTo(k) ==
    IF k = 0 THEN {<< >>}
    ELSE LET shorter == SeqsUpTo(k - 1)
         IN shorter \cup {Append(q, c) : q \in {x \in shorter : Len(x) = k - 1}, c \in Chars}

PipeInit ==
    \E cn \in BOOLEAN, on \in BOOLEAN, size \in 0 .. MaxBuf, data \in SeqsUpTo(MaxOut) :
        pipecmd = [pc |-> "entry", commandNull |-> cn, outputNull |-> on,
                   output_size |-> size, stream |-> data,
                   output |-> [j \in 0 .. (size - 1) |-> Garbage],
                   bytes_read |-> 0, current_pos |-> 0, remaining_space |-> 0,
                   calls |-> 0,
                   ran |-> FALSE, outside |-> FALSE, ret |-> Running]

pipeOthers == <<harnessVars, mem, series, syscmd, minmax, menu, lifecycle, jobs>>

\* the number of characters fgets(s, size, stream) takes from the stream:
\* up to size - 1, stopping after a newline or at the end of the input
RECURSIVE Taken(_, _)
Taken(size, data) ==
    IF size <= 1 \/ data = << >> THEN 0
    ELSE IF Head(data) = "nl" THEN 1
    ELSE 1 + Taken(size - 1, Tail(data))

\* strlen of what fgets stored: the characters before the first zero byte
RECURSIVE strlen(_)
strlen(chunk) ==
    IF chunk = << >> \/ Head(chunk) = "nul" THEN 0 ELSE 1 + strlen(Tail(chunk))

\* the buffer after fgets stored chunk and its terminator at offset pos
Stored(buf, pos, chunk) ==
    [j \in DOMAIN buf |->
        IF j >= pos /\ j < pos + Len(chunk) THEN chunk[j - pos + 1]
        ELSE IF j = pos + Len(chunk) THEN "nul"
        ELSE buf[j]]

\* the test of the three parameters
pipe_check ==
    /\ pipecmd.pc = "entry"
    /\ pipecmd' =
           IF pipecmd.commandNull \/ pipecmd.outputNull \/ pipecmd.output_size = 0
           THEN [pipecmd EXCEPT !.ret = -1, !.pc = "done"]
           ELSE [pipecmd EXCEPT !.pc = "popen"]
    /\ UNCHANGED pipeOthers

\* popen(command, "r") and the initialisation of the locals
pipe_popen ==
    /\ pipecmd.pc = "popen"
    /\ \/ pipecmd' = [pipecmd EXCEPT !.ret = -1, !.pc = "done"]
       \/ pipecmd' = [pipecmd EXCEPT !.ran = TRUE, !.bytes_read = 0, !.current_pos = 0,
                                     !.remaining_space = pipecmd.output_size - 1,
                                     !.pc = "loop"]
    /\ UNCHANGED pipeOthers

\* faulty variant: every fgets call is given the size of the whole buffer
pipe_fgets_WholeSize ==
    /\ pipecmd.pc = "loop" /\ pipecmd.remaining_space > 0
    /\ LET size == pipecmd.output_size
           k == Taken(size, pipecmd.stream)
           chunk == SubSeq(pipecmd.stream, 1, k)
           line_length == strlen(chunk)
       IN /\ size = 1 \/ k > 0
          /\ pipecmd' = [pipecmd EXCEPT
                 !.stream = SubSeq(pipecmd.stream, k + 1, Len(pipecmd.stream)),
                 !.output = Stored(pipecmd.output, pipecmd.current_pos, chunk),
                 !.outside = pipecmd.outside
                                 \/ pipecmd.current_pos + k >= pipecmd.output_size,
                 !.current_pos = pipecmd.current_pos + line_length,
                 !.remaining_space = pipecmd.remaining_space - line_length,
                 !.bytes_read = pipecmd.bytes_read + line_length,
                 !.calls = 1 - pipecmd.calls]
    /\ UNCHANGED pipeOthers

\* the loop condition holds (fgets returned a line) and the body runs; fgets
\* with size 1 stores only the terminator and returns the buffer; calls is
\* the parity of the number of fgets calls that returned a line
pipe_fgets ==
    /\ pipecmd.pc = "loop" /\ pipecmd.remaining_space > 0
    /\ LET size == pipecmd.remaining_space
           k == Taken(size, pipecmd.stream)
           chunk == SubSeq(pipecmd.stream, 1, k)
           line_length == strlen(chunk)
       IN /\ size = 1 \/ k > 0
          /\ pipecmd' = [pipecmd EXCEPT
                 !.stream = SubSeq(pipecmd.stream, k + 1, Len(pipecmd.stream)),
                 !.output = Stored(pipecmd.output, pipecmd.current_pos, chunk),
                 !.outside = pipecmd.outside
                                 \/ pipecmd.current_pos + k >= pipecmd.output_size,
                 !.current_pos = pipecmd.current_pos + line_length,
                 !.remaining_space = pipecmd.remaining_space - line_length,
                 !.bytes_read = pipecmd.bytes_read + line_length,
                 !.calls = 1 - pipecmd.calls]
    /\ UNCHANGED pipeOthers

\* the loop condition fails: no space remains or fgets returned NULL at the
\* end of the input (with size 1 a library may also report the end of the
\* input instead of storing the terminator); then output[bytes_read] = '\0'
pipe_terminate ==
    /\ pipecmd.pc = "loop"
    /\ pipecmd.remaining_space = 0 \/ pipecmd.stream = << >>
    /\ pipecmd' = [pipecmd EXCEPT
           !.output = Stored(pipecmd.output, pipecmd.bytes_read, << >>),
           !.outside = pipecmd.outside \/ pipecmd.bytes_read >= pipecmd.output_size,
           !.pc = "pclose"]
    /\ UNCHANGED pipeOthers

\* pclose(pipe) and the tests on its result
pipe_pclose ==
    /\ pipecmd.pc = "pclose"
    /\ \E exit_status \in {-1} \cup {WaitStatus(o) : o \in Outcomes} :
           pipecmd' = [pipecmd EXCEPT
               !.pc = "done",
               !.ret = IF exit_status = -1 THEN -1
                       ELSE IF WIFEXITED(exit_status) /\ WEXITSTATUS(exit_status) = 0
                            THEN 0
                       ELSE -1]
    /\ UNCHANGED pipeOthers

PipeStep == pipe_check \/ pipe_popen \/ pipe_fgets \/ pipe_terminate \/ pipe_pclose

\* --------------------------------------------- min/max without branches
\* operands: those of demonstrate_min_max_operations and values at and
\* next to the limits of int
IntSamples == {INT_MIN, INT_MIN + 1, -17, -1, 0, 1, 17, 25, INT_MAX - 1, INT_MAX}

MinMaxInit ==
    \E x \in IntSamples, y \in IntSamples :
        minmax = [pc |-> "max", a |-> x, b |-> y, max_val |-> 0, min_val |-> 0,
                  overflowed |-> FALSE]

minmaxOthers == <<harnessVars, mem, series, syscmd, pipecmd, menu, lifecycle, jobs>>

\* x & y on two's complement int values
RECURSIVE BitAnd(_, _)
BitAnd(x, y) ==
    IF x = 0 \/ y = 0 THEN 0
    ELSE IF x = -1 THEN y
    ELSE IF y = -1 THEN x
    ELSE (x % 2) * (y % 2) + 2 * BitAnd(x \div 2, y \div 2)

\* ~x
BitNot(x) == -1 - x

\* x | y
BitOr(x, y) == BitNot(BitAnd(BitNot(x), BitNot(y)))

\* x >> k with the sign bit copied in, as the compilers of this build do
RECURSIVE ShiftRight(_, _)
ShiftRight(x, k) == IF k = 0 THEN x ELSE ShiftRight(x \div 2, k - 1)

\* a - b leaves the range of int
SubOverflows(x, y) == (y > 0 /\ x < INT_MIN + y) \/ (y < 0 /\ x > INT_MAX + y)

\* a - b, reduced modulo 2^32 into the range of int
Sub32(x, y) ==
    IF y > 0 /\ x < INT_MIN + y THEN ((x - INT_MIN) + (INT_MAX - y)) + 1
    ELSE IF y < 0 /\ x > INT_MAX + y THEN ((x - INT_MAX) + (INT_MIN - y)) - 1
    ELSE x - y

\* (lo & ((a - b) >> 31)) | (hi & (~(a - b) >> 31))
Select(lo, hi, a, b) ==
    BitOr(BitAnd(lo, ShiftRight(Sub32(a, b), 31)),
          BitAnd(hi, ShiftRight(BitNot(Sub32(a, b)), 31)))

\* faulty variant: the two masks are exchanged
mm_max_MasksExchanged ==
    /\ minmax.pc = "max"
    /\ \/ minmax' = [minmax EXCEPT
              !.max_val = Select(minmax.a, minmax.b, minmax.a, minmax.b),
              !.overflowed = SubOverflows(minmax.a, minmax.b),
              !.pc = "min"]
       \/ /\ SubOverflows(minmax.a, minmax.b)
          /\ minmax' = [minmax EXCEPT !.overflowed = TRUE, !.pc = "aborted"]
    /\ UNCHANGED minmaxOthers

\* int max_val = (b & ((a - b) >> 31)) | (a & (~(a - b) >> 31)); when a - b
\* overflows the result is that of the wrapped difference, or the
\* subtraction traps
mm_max ==
    /\ minmax.pc = "max"
    /\ \/ minmax' = [minmax EXCEPT
              !.max_val = Select(minmax.b, minmax.a, minmax.a, minmax.b),
              !.overflowed = SubOverflows(minmax.a, minmax.b),
              !.pc = "min"]
       \/ /\ SubOverflows(minmax.a, minmax.b)
          /\ minmax' = [minmax EXCEPT !.overflowed = TRUE, !.pc = "aborted"]
    /\ UNCHANGED minmaxOthers

\* int min_val = (a & ((a - b) >> 31)) | (b & (~(a - b) >> 31))
mm_min ==
    /\ minmax.pc = "min"
    /\ \/ minmax' = [minmax EXCEPT
              !.min_val = Select(minmax.a, minmax.b, minmax.a, minmax.b),
              !.pc = "done"]
       \/ /\ SubOverflows(minmax.a, minmax.b)
          /\ minmax' = [minmax EXCEPT !.pc = "aborted"]
    /\ UNCHANGED minmaxOthers

MinMaxStep == mm_max \/ mm_min

\* ------------------------------------------------ bit_operations menu
\* the characters of standard input: digits, a character that is no digit,
\* and the newline
Digits == {"0", "1", "7", "9"}
InChars == Digits \cup {"x", "nl"}
DigitVal(c) == IF c = "0" THEN 0 ELSE IF c = "1" THEN 1 ELSE IF c = "7" THEN 7 ELSE 9

RECURSIVE InputsUpTo(_)
InputsUpTo(k) ==
    IF k = 0 THEN {<< >>}
    ELSE LET shorter == InputsUpTo(k - 1)
         IN shorter \cup {Append(q, c) : q \in {x \in shorter : Len(x) = k - 1}, c \in InChars}

AllDemos == <<1, 2, 3, 4, 5, 6>>

MenuInit ==
    \E in \in InputsUpTo(MaxInput) :
        menu = [pc |-> "top", running |-> TRUE, choice |-> 0, stdin |-> in,
                log |-> << >>, ret |-> Running]

menuOthers == <<harnessVars, mem, series, syscmd, pipecmd, minmax, lifecycle, jobs>>

\* scanf("%d") first skips white space
RECURSIVE SkipSpace(_)
SkipSpace(in) == IF in # << >> /\ Head(in) = "nl" THEN SkipSpace(Tail(in)) ELSE in

\* then converts the longest run of digits: the value and the unread input
RECURSIVE ScanDigits(_, _)
ScanDigits(in, acc) ==
    IF in # << >> /\ Head(in) \in Digits
    THEN ScanDigits(Tail(in), acc * 10 + DigitVal(Head(in)))
    ELSE [value |-> acc, rest |-> in]

\* scanf("%d", &choice) returns 1
ScanSucceeds(in) == SkipSpace(in) # << >> /\ Head(SkipSpace(in)) \in Digits

\* clear_input_buffer: getchar until a newline or the end of the input
RECURSIVE ClearInputBuffer(_)
ClearInputBuffer(in) ==
    IF in = << >> THEN << >>
    ELSE IF Head(in) = "nl" THEN Tail(in)
    ELSE ClearInputBuffer(Tail(in))

\* while (running): show_menu()
menu_show ==
    /\ menu.pc = "top" /\ menu.running
    /\ menu' = [menu EXCEPT !.pc = "read"]
    /\ UNCHANGED menuOthers

\* get_user_choice: scanf read an integer, the rest of the line is dropped
menu_read ==
    /\ menu.pc = "read" /\ ScanSucceeds(menu.stdin)
    /\ LET scanned == ScanDigits(SkipSpace(menu.stdin), 0)
       IN menu' = [menu EXCEPT !.choice = scanned.value,
                               !.stdin = ClearInputBuffer(scanned.rest),
                               !.pc = "switch"]
    /\ UNCHANGED menuOthers

\* get_user_choice: scanf read no integer (no digit, or the end of the input);
\* the line is dropped and scanf is called again
menu_read_invalid ==
    /\ menu.pc = "read" /\ ~ScanSucceeds(menu.stdin)
    /\ menu' = [menu EXCEPT !.stdin = ClearInputBuffer(SkipSpace(menu.stdin))]
    /\ UNCHANGED menuOthers

\* faulty variant: case 7 has no break and falls through to case 0
menu_switch_SevenFallsThrough ==
    /\ menu.pc = "switch"
    /\ LET c == menu.choice
           demos == IF c \in 1 .. 6 THEN <<c>> ELSE IF c = 7 THEN AllDemos ELSE << >>
           stop == c = 0 \/ c = 7
       IN menu' = [menu EXCEPT
              !.running = IF stop THEN FALSE ELSE menu.running,
              !.log = Append(menu.log, [choice |-> c, demos |-> demos,
                                        invalid |-> c \notin 0 .. 7,
                                        running |-> ~stop]),
              !.pc = "pause"]
    /\ UNCHANGED menuOthers

\* switch (choice)
menu_switch ==
    /\ menu.pc = "switch"
    /\ LET c == menu.choice
           demos == IF c \in 1 .. 6 THEN <<c>> ELSE IF c = 7 THEN AllDemos ELSE << >>
           stop == c = 0
       IN menu' = [menu EXCEPT
              !.running = IF stop THEN FALSE ELSE menu.running,
              !.log = Append(menu.log, [choice |-> c, demos |-> demos,
                                        invalid |-> c \notin 0 .. 7,
                                        running |-> ~stop]),
              !.pc = "pause"]
    /\ UNCHANGED menuOthers

\* if (running) getchar(): one character of the input is consumed
menu_pause ==
    /\ menu.pc = "pause"
    /\ menu' = [menu EXCEPT
           !.stdin = IF menu.running /\ menu.stdin # << >>
                     THEN Tail(menu.stdin) ELSE menu.stdin,
           !.pc = "top"]
    /\ UNCHANGED menuOthers

\* the loop condition is false: return 0
menu_return ==
    /\ menu.pc = "top" /\ ~menu.running
    /\ menu' = [menu EXCEPT !.ret = 0, !.pc = "done"]
    /\ UNCHANGED menuOthers

MenuStep ==
    menu_show \/ menu_read \/ menu_read_invalid \/ menu_switch \/ menu_pause \/ menu_return

\* ------------------------------- initialize_mutex and cleanup_resources
\* the two functions of pthread_mutex_demo on their own: initialize_mutex is
\* called, then cleanup_resources up to MaxCleanups times
LifeInit ==
    \E f \in BOOLEAN, d \in BOOLEAN :
        lifecycle = [pc |-> "initialize", initFails |-> f, destroyFails |-> d,
                     mutex_initialized |-> 0, mutex_state |-> "uninit",
                     destroyCalls |-> 0, cleanups |-> 0, afterFirst |-> << >>]

lifeOthers == <<harnessVars, mem, series, syscmd, pipecmd, minmax, menu, jobs>>

\* what a caller can see of the mutex
LifeView(l) == <<l.mutex_initialized, l.mutex_state, l.destroyCalls>>

\* initialize_mutex: pthread_mutex_init, the flag is set on success only
life_initialize ==
    /\ lifecycle.pc = "initialize"
    /\ lifecycle' =
           IF lifecycle.initFails
           THEN [lifecycle EXCEPT !.pc = "cleanup"]
           ELSE [lifecycle EXCEPT !.mutex_initialized = 1, !.mutex_state = "valid",
                                  !.pc = "cleanup"]
    /\ UNCHANGED lifeOthers

\* what cleanup_resources leaves when it does not clear the flag
Cleaned_KeepsFlag(l) ==
    IF l.mutex_initialized = 1
    THEN [l EXCEPT !.destroyCalls = l.destroyCalls + 1,
                   !.mutex_state = IF l.destroyFails THEN l.mutex_state ELSE "destroyed"]
    ELSE l

\* cleanup_resources: when the flag is set, pthread_mutex_destroy is called
\* (its result only selects the message) and the flag is cleared
Cleaned(l) ==
    IF l.mutex_initialized = 1
    THEN [l EXCEPT !.destroyCalls = l.destroyCalls + 1,
                   !.mutex_state = IF l.destroyFails THEN l.mutex_state ELSE "destroyed",
                   !.mutex_initialized = 0]
    ELSE l

\* one call of cleanup_resources
life_cleanup ==
    /\ lifecycle.pc = "cleanup" /\ lifecycle.cleanups < MaxCleanups
    /\ LET after == Cleaned(lifecycle)
       IN lifecycle' = [after EXCEPT
              !.cleanups = lifecycle.cleanups + 1,
              !.afterFirst = IF lifecycle.cleanups = 0 THEN LifeView(after)
                             ELSE lifecycle.afterFirst]
    /\ UNCHANGED lifeOthers

LifeStep == life_initialize \/ life_cleanup

\* ------------------------------------------------------ simple job demo
\* generic02 (thread_func) and demonstrate_threading_simple (simple_job_thread)
JobPrograms == {"generic02", "comprehensive_simple"}

JobInit ==
    \E p \in JobPrograms, c \in 0 .. NUM_THREADS :
        \E f \in (IF p = "generic02" THEN BOOLEAN ELSE {FALSE}) :
            jobs = [pc |-> IF p = "generic02" THEN "init" ELSE "reset",
                    prog |-> p, initFails |-> f, createFailAt |-> c, idx |-> 0,
                    mutex |-> IF p = "generic02" THEN "uninit" ELSE "valid",
                    owner |-> NoOwner, job_counter |-> 0,
                    pcJ |-> [w \in Workers |-> "NotCreated"],
                    tmp |-> [w \in Workers |-> 0],
                    current_job |-> [w \in Workers |-> 0],
                    log |-> << >>, joined |-> FALSE, alive |-> TRUE]

\* the demo is the running program and its process has not ended
JobAlive == jobs.pc # "idle" /\ jobs.alive

jobOthers == <<harnessVars, mem, series, syscmd, pipecmd, minmax, menu, lifecycle>>

\* demonstrate_threading_simple: job_counter = 0
job_reset ==
    /\ jobs.pc = "reset"
    /\ jobs' = [jobs EXCEPT !.job_counter = 0, !.pc = "create"]
    /\ UNCHANGED jobOthers

\* main of generic02: pthread_mutex_init and the test of its result
job_init ==
    /\ jobs.pc = "init"
    /\ jobs' = IF jobs.initFails
               THEN [jobs EXCEPT !.pc = "finish"]
               ELSE [jobs EXCEPT !.mutex = "valid", !.pc = "create"]
    /\ UNCHANGED jobOthers

\* position of main after a pthread_create that did not end the function
AfterCreate(j) == IF j.idx + 1 = NUM_THREADS THEN "join" ELSE "create"
NextIdx(j) == IF j.idx + 1 = NUM_THREADS THEN 0 ELSE j.idx + 1

\* one pthread_create: generic02 does not test the result,
\* demonstrate_threading_simple returns on a failure
job_create ==
    /\ JobAlive /\ jobs.pc = "create"
    /\ jobs' =
           IF jobs.createFailAt = jobs.idx + 1
           THEN IF jobs.prog = "generic02"
                THEN [jobs EXCEPT !.pc = AfterCreate(jobs), !.idx = NextIdx(jobs)]
                ELSE [jobs EXCEPT !.pc = "returned"]
           ELSE [jobs EXCEPT !.pcJ[jobs.idx] = "lock",
                             !.pc = AfterCreate(jobs), !.idx = NextIdx(jobs)]
    /\ UNCHANGED jobOthers

\* one pthread_join: returns when the thread has terminated
job_join ==
    /\ JobAlive /\ jobs.pc = "join"
    /\ jobs.pcJ[jobs.idx] = "Terminated"
    /\ jobs' = [jobs EXCEPT !.pc = IF jobs.idx + 1 = NUM_THREADS THEN "finish" ELSE "join",
                            !.joined = (jobs.idx + 1 = NUM_THREADS),
                            !.idx = NextIdx(jobs)]
    /\ UNCHANGED jobOthers

\* pthread_join on a thread id that pthread_create never set: the call
\* returns an error at once or the process is killed
job_join_invalid ==
    /\ JobAlive /\ jobs.pc = "join"
    /\ jobs.pcJ[jobs.idx] = "NotCreated"
    /\ \/ jobs' = [jobs EXCEPT
              !.pc = IF jobs.idx + 1 = NUM_THREADS THEN "finish" ELSE "join",
              !.joined = (jobs.idx + 1 = NUM_THREADS),
              !.idx = NextIdx(jobs)]
       \/ jobs' = [jobs EXCEPT !.pc = "killed", !.alive = FALSE]
    /\ UNCHANGED jobOthers

\* the last printf: main of generic02 then ends the process,
\* demonstrate_threading_simple returns to its caller
job_finish ==
    /\ JobAlive /\ jobs.pc = "finish"
    /\ jobs' = IF jobs.prog = "generic02"
               THEN [jobs EXCEPT !.pc = "exited", !.alive = FALSE]
               ELSE [jobs EXCEPT !.pc = "returned"]
    /\ UNCHANGED jobOthers

\* faulty variant: the lock does not exclude (the owner is not looked at)
JobLockAvailable_Ignored == jobs.mutex = "valid"

\* pthread_mutex_lock may return: the mutex is valid and nobody holds it
JobLockAvailable == jobs.mutex = "valid" /\ jobs.owner = NoOwner

\* pthread_mutex_lock returns
job_lock(w) ==
    /\ JobAlive /\ jobs.pcJ[w] = "lock"
    /\ JobLockAvailable
    /\ jobs' = [jobs EXCEPT !.owner = w, !.pcJ[w] = "load"]
    /\ UNCHANGED jobOthers

\* counter += 1 / job_counter++: the load
job_load(w) ==
    /\ JobAlive /\ jobs.pcJ[w] = "load"
    /\ jobs' = [jobs EXCEPT !.tmp[w] = jobs.job_counter, !.pcJ[w] = "store"]
    /\ UNCHANGED jobOthers

\* counter += 1 / job_counter++: the store
job_store(w) ==
    /\ JobAlive /\ jobs.pcJ[w] = "store"
    /\ jobs' = [jobs EXCEPT
           !.job_counter = jobs.tmp[w] + 1,
           !.pcJ[w] = IF jobs.prog = "generic02" THEN "started" ELSE "copy"]
    /\ UNCHANGED jobOthers

\* simple_job_thread: int current_job = job_counter
job_copy(w) ==
    /\ JobAlive /\ jobs.pcJ[w] = "copy"
    /\ jobs' = [jobs EXCEPT !.current_job[w] = jobs.job_counter, !.pcJ[w] = "started"]
    /\ UNCHANGED jobOthers

\* the number a message carries: thread_func prints the global counter,
\* simple_job_thread its local copy
JobNumber(j, w) == IF j.prog = "generic02" THEN j.job_counter ELSE j.current_job[w]

\* printf "Job %d started"
job_started(w) ==
    /\ JobAlive /\ jobs.pcJ[w] = "started"
    /\ jobs' = [jobs EXCEPT
           !.log = Append(jobs.log, [job |-> w, kind |-> "started",
                                     number |-> JobNumber(jobs, w)]),
           !.pcJ[w] = "work"]
    /\ UNCHANGED jobOthers

\* the busy loop, which touches no shared variable
job_work(w) ==
    /\ JobAlive /\ jobs.pcJ[w] = "work"
    /\ jobs' = [jobs EXCEPT !.pcJ[w] = "finished"]
    /\ UNCHANGED jobOthers

\* printf "Job %d finished"
job_finished(w) ==
    /\ JobAlive /\ jobs.pcJ[w] = "finished"
    /\ jobs' = [jobs EXCEPT
           !.log = Append(jobs.log, [job |-> w, kind |-> "finished",
                                     number |-> JobNumber(jobs, w)]),
           !.pcJ[w] = "unlock"]
    /\ UNCHANGED jobOthers

\* pthread_mutex_unlock and return NULL
job_unlock(w) ==
    /\ JobAlive /\ jobs.pcJ[w] = "unlock"
    /\ jobs' = [jobs EXCEPT !.owner = IF jobs.owner = w THEN NoOwner ELSE jobs.owner,
                            !.pcJ[w] = "Terminated"]
    /\ UNCHANGED jobOthers

JobMainStep ==
    job_reset \/ job_init \/ job_create \/ job_join \/ job_join_invalid \/ job_finish

JobThreadStep(w) ==
    \/ job_lock(w)
    \/ job_load(w)
    \/ job_store(w)
    \/ job_copy(w)
    \/ job_started(w)
    \/ job_work(w)
    \/ job_finished(w)
    \/ job_unlock(w)

JobStep == JobMainStep \/ \E w \in Workers : JobThreadStep(w)

\* ------------------------------------------------------- specifications
MainStep ==
    \/ reset_counter
    \/ print_initial
    \/ initialize_mutex
    \/ create_thread
    \/ join_thread
    \/ join_invalid
    \/ report_final
    \/ cleanup_resources
    \/ main_return
    \/ main_finish

WorkerStep(w) ==
    \/ worker_start(w)
    \/ worker_lock(w)
    \/ worker_lock_invalid(w)
    \/ worker_observe(w)
    \/ worker_initial_load(w)
    \/ worker_initial_store(w)
    \/ worker_loop_load(w)
    \/ worker_loop_store(w)
    \/ worker_loop_idle(w)
    \/ worker_loop_exit(w)
    \/ worker_final(w)
    \/ worker_unlock(w)
    \/ worker_exit(w)

\* one program of the repository is started
Init ==
    \/ HarnessInit /\ mem = Idle /\ series = Idle /\ syscmd = Idle /\ pipecmd = Idle /\ minmax = Idle /\ menu = Idle /\ lifecycle = Idle /\ jobs = Idle
    \/ HarnessIdle /\ MemInit /\ series = Idle /\ syscmd = Idle /\ pipecmd = Idle /\ minmax = Idle /\ menu = Idle /\ lifecycle = Idle /\ jobs = Idle
    \/ HarnessIdle /\ mem = Idle /\ SeriesInit /\ syscmd = Idle /\ pipecmd = Idle /\ minmax = Idle /\ menu = Idle /\ lifecycle = Idle /\ jobs = Idle
    \/ HarnessIdle /\ mem = Idle /\ series = Idle /\ SysInit /\ pipecmd = Idle /\ minmax = Idle /\ menu = Idle /\ lifecycle = Idle /\ jobs = Idle
    \/ HarnessIdle /\ mem = Idle /\ series = Idle /\ syscmd = Idle /\ PipeInit /\ minmax = Idle /\ menu = Idle /\ lifecycle = Idle /\ jobs = Idle
    \/ HarnessIdle /\ mem = Idle /\ series = Idle /\ syscmd = Idle /\ pipecmd = Idle /\ MinMaxInit /\ menu = Idle /\ lifecycle = Idle /\ jobs = Idle
    \/ HarnessIdle /\ mem = Idle /\ series = Idle /\ syscmd = Idle /\ pipecmd = Idle /\ minmax = Idle /\ MenuInit /\ lifecycle = Idle /\ jobs = Idle
    \/ HarnessIdle /\ mem = Idle /\ series = Idle /\ syscmd = Idle /\ pipecmd = Idle /\ minmax = Idle /\ menu = Idle /\ LifeInit /\ jobs = Idle
    \/ HarnessIdle /\ mem = Idle /\ series = Idle /\ syscmd = Idle /\ pipecmd = Idle /\ minmax = Idle /\ menu = Idle /\ lifecycle = Idle /\ JobInit

Next ==
    \/ MainStep
    \/ \E w \in Workers : WorkerStep(w)
    \/ Rerun
    \/ MemStep
    \/ SeriesStep
    \/ SysStep
    \/ PipeStep
    \/ MinMaxStep
    \/ MenuStep
    \/ LifeStep
    \/ JobStep

Spec == Init /\ [][Next]_vars

\* the same programs with the fault injected that pthread_mutex_lock may fail
FaultNext ==
    \/ Next
    \/ \E w \in Workers : worker_lock_fails(w)

FaultSpec == Init /\ [][FaultNext]_vars

\* execute_command_with_output keeps executing until it returns
PipeFairSpec == Spec /\ WF_vars(PipeStep)

\* the operating system schedules every thread that can run
FairSpec == Spec /\ WF_vars(MainStep) /\ \A w \in Workers : WF_vars(WorkerStep(w))

TypeOK ==
    /\ prog \in Programs \cup {"none"} /\ N \in 0 .. MaxN
    /\ mutex_owner \in Workers \cup {NoOwner}
    /\ exitStatus \in {Running, EXIT_SUCCESS, EXIT_FAILURE}
    /\ runNo \in 1 .. MaxRuns

\* ================================================================ claims
IncDecPrograms == {"pthread_mutex_demo", "hack03", "comprehensive"}
AllCreated == createFailAt = 0
AllTerminated == \A w \in Workers : pcW[w] = "Terminated"

\* C1: mutual exclusion - in every reachable state at most one worker is
\* between its successful pthread_mutex_lock and its pthread_mutex_unlock.
C1_MutualExclusion ==
    \A v, w \in Workers : v # w => ~(InCS(v) /\ InCS(w))

\* one worker is inside its loop while the other waits for the mutex
C1_Witness ==
    \E v, w \in Workers :
        /\ v # w /\ pcW[v] = "cs_loop_store" /\ pcW[w] = "WaitingForLock"
        /\ mutex_owner = v

\* C2: for the increment/decrement pairing the counter is exactly 2 once both
\* workers have finished, and 2 is the value main prints, whichever worker
\* took the mutex first and for every N.
C2_FinalValueIsTwo ==
    prog \in IncDecPrograms =>
        /\ reported \subseteq {2}
        /\ (joined /\ AllCreated => shared_counter = 2)

\* the decrement worker ran first, N > 0, and main printed 2
C2_Witness ==
    /\ prog \in IncDecPrograms /\ N > 0
    /\ reported = {2} /\ Len(hist) > 0 /\ hist[1][1] = 1

\* C3: when pthread_mutex_init fails the process ends with a non-zero status,
\* no worker was created and the counter was never modified.
C3_InitFailureIsFatal ==
    (initFails /\ pcMain = "exited") =>
        /\ exitStatus # EXIT_SUCCESS
        /\ \A w \in Workers : pcW[w] = "NotCreated"
        /\ shared_counter = 0 /\ hist = << >>

\* C4: the step that prints the final counter is taken only when every
\* worker has terminated.
C4_ReportAfterTermination ==
    [][(reported' # reported /\ reported' # {}) => AllTerminated]_vars

\* main printed the final value after both workers went through their loops
C4_Witness ==
    /\ reported # {} /\ AllTerminated /\ N > 0
    /\ Len(hist) = 2 * (N + 1)

\* stores worker w makes when it runs alone from counter value start
WorkerWrites(p, w, start, n) ==
    IF Delta(p, w) = 0
    THEN << <<w, start + 1>> >>
    ELSE [k \in 1 .. (n + 1) |-> <<w, start + 1 + (k - 1) * Delta(p, w)>>]

\* counter value after worker w ran alone from start
EndValue(p, w, start, n) == start + 1 + n * Delta(p, w)

\* sequential execution: all of worker a, then all of worker b
Sequential(p, a, b, n) ==
    WorkerWrites(p, a, 0, n) \o WorkerWrites(p, b, EndValue(p, a, 0, n), n)

IsPrefix(s, t) == Len(s) <= Len(t) /\ SubSeq(t, 1, Len(s)) = s

SerialOrders == {Sequential(prog, 0, 1, N), Sequential(prog, 1, 0, N)}

\* C5: the stores to the counter are at every moment a prefix of one of the
\* two sequential executions (all of A then all of B, or all of B then all of
\* A), and are exactly one of them when both workers have finished.
C5_Serializable ==
    /\ \E t \in SerialOrders : IsPrefix(hist, t)
    /\ (joined /\ AllCreated => hist \in SerialOrders)

\* a complete run in which the second worker went first
C5_Witness ==
    /\ joined /\ AllCreated /\ N > 0 /\ prog \in IncDecPrograms
    /\ hist = Sequential(prog, 1, 0, N)

\* C6 as stated: both workers run the same role and the counter ends at 2 + 2N.
C6_Original ==
    (prog = "generic02" /\ joined /\ AllCreated) => shared_counter = 2 + 2 * N

\* C6 (amended): with both workers running thread_func the counter ends at
\* exactly 2 for every N - each worker adds 1 once and its loop leaves the
\* counter alone.
C6_SameRoleFinalIsTwo ==
    (prog = "generic02" /\ joined /\ AllCreated) => shared_counter = 2

\* both thread_func workers finished a non-empty loop
C6_Witness ==
    /\ prog = "generic02" /\ joined /\ AllCreated /\ N > 0
    /\ AllTerminated /\ shared_counter = 2

\* C7: determinism - a second invocation with the same configuration ends
\* with the counter value the first invocation ended with.
C7_Deterministic ==
    (joined /\ firstFinal # {}) => firstFinal = {shared_counter}

\* the second invocation completed with the other worker first
C7_Witness ==
    /\ runNo > 1 /\ joined /\ firstFinal # {} /\ N > 0 /\ AllCreated
    /\ Len(hist) > 0 /\ hist[1][1] = 1

\* C8 as stated: in pthread_mutex_demo a failed pthread_mutex_init is the
\* only failure; if it succeeds the run prints the final counter and exits 0.
C8_Original ==
    (prog = "pthread_mutex_demo" /\ ~initFails /\ pcMain = "exited") =>
        (exitStatus = EXIT_SUCCESS /\ reported # {})

\* C8 (amended): in pthread_mutex_demo the failures are a failed
\* pthread_mutex_init and a failed pthread_create; if neither fails the run
\* prints the final counter and exits with status 0.
C8_OnlyInitAndCreateFail ==
    (prog = "pthread_mutex_demo" /\ ~initFails /\ AllCreated /\ pcMain = "exited") =>
        (exitStatus = EXIT_SUCCESS /\ reported # {})

\* pthread_mutex_demo ended normally
C8_Witness ==
    /\ prog = "pthread_mutex_demo" /\ ~initFails /\ AllCreated /\ pcMain = "exited"
    /\ exitStatus = EXIT_SUCCESS /\ reported = {2}

BothStarted == ProcessAlive /\ \A w \in Workers : pcW[w] # "NotCreated"
Acquired(w) == \E k \in 1 .. Len(hist) : hist[k][1] = w
RunComplete ==
    /\ AllTerminated /\ joined /\ mutex_owner = NoOwner
    /\ \A w \in Workers : Acquired(w)
    /\ PrintsFinal(prog) => reported # {}

\* C9: under fair scheduling, once both workers are started each of them
\* takes the mutex, finishes its loop, releases the mutex and terminates,
\* and main comes out of both joins and prints the final value.
C9_Termination == BothStarted ~> RunComplete

\* a run that went from both workers started to completion
C9_Witness ==
    /\ RunComplete /\ N > 0 /\ pcMain = "exited"

\* C10 as stated: every access to the counter is made by a thread that holds
\* the mutex.
C10_Original ==
    \A a \in accesses : a.held

\* C10 (amended): every access by a worker is made while that worker holds
\* the mutex; main accesses the counter without the mutex, but only while no
\* worker exists (before the first pthread_create or after both joins).
C10_WorkersLockedMainAlone ==
    \A a \in accesses :
        IF a.by \in Workers THEN a.held ELSE (~a.held /\ a.alone)

\* main read the counter after the workers wrote it under the mutex
C10_Witness ==
    /\ reported # {}
    /\ \E a \in accesses : a.by = MainT /\ a.kind = "read"
    /\ \E a \in accesses : a.by \in Workers /\ a.kind = "write" /\ a.held

\* C11: lock lifecycle - the mutex exists before any worker is started, it is
\* held only by a worker that is inside its critical section, and it is
\* destroyed only after main has joined the workers it created.
C11_LockLifecycle ==
    /\ \A w \in Workers : pcW[w] # "NotCreated" => mutex_state # "uninit"
    /\ \A w \in Workers : mutex_owner = w => InCS(w)
    /\ mutex_state = "destroyed" =>
           (joined \/ \A w \in Workers : pcW[w] = "NotCreated")

\* state of the per-worker state machine a position belongs to
Phase(pc) ==
    IF pc = "NotCreated" THEN "Created"
    ELSE IF pc \in CSPcs THEN "InCriticalSection"
    ELSE pc

PhaseOrder ==
    {<<"Created", "Started">>, <<"Started", "WaitingForLock">>,
     <<"WaitingForLock", "InCriticalSection">>,
     <<"InCriticalSection", "Released">>, <<"Released", "Terminated">>}

\* C12: every worker moves Created, Started, WaitingForLock,
\* InCriticalSection, Released, Terminated in that order and never leaves
\* Terminated; it enters InCriticalSection only by a successful lock call.
C12_WorkerStateMachine ==
    [][runNo' = runNo =>
        \A w \in Workers :
            /\ \/ Phase(pcW'[w]) = Phase(pcW[w])
               \/ <<Phase(pcW[w]), Phase(pcW'[w])>> \in PhaseOrder
            /\ (Phase(pcW'[w]) = "InCriticalSection" /\ Phase(pcW[w]) # "InCriticalSection")
                   => (mutex_owner' = w /\ lockCalls'[w] = lockCalls[w] + 1)]_vars

\* programs whose workers are myfunc / myfunc1 and increment_thread / decrement_thread
UncheckedLockPrograms == {"hack03", "comprehensive"}

\* stores made by worker w, in order
WritesOf(w) == SelectSeq(hist, LAMBDA e : e[1] = w)

\* direction of a role: +1 for the increment worker, -1 for the decrement worker
RoleStep(w) == IF w = 0 THEN 1 ELSE -1

\* C13: a worker locks the mutex once and unlocks it once; all its
\* adjustments lie inside that one acquisition, the first is +1, the
\* following ones go in the direction of its role, and when it has unlocked
\* it has made exactly N + 1 of them.
C13_OneAcquisitionAllAdjustments ==
    prog \in UncheckedLockPrograms =>
        \A w \in Workers :
            LET ws == WritesOf(w) IN
            /\ lockCalls[w] <= 1 /\ unlockCalls[w] <= lockCalls[w]
            /\ Len(ws) > 0 => lockCalls[w] = 1
            /\ (Len(ws) > 0 /\ observed[w] # {}) => observed[w] = {ws[1][2] - 1}
            /\ \A k \in 2 .. Len(ws) : ws[k][2] = ws[k - 1][2] + RoleStep(w)
            /\ Len(ws) <= N + 1
            /\ unlockCalls[w] = 1 => Len(ws) = N + 1
            /\ pcW[w] = "Terminated" => (lockCalls[w] = 1 /\ unlockCalls[w] = 1)

\* both workers of such a program went through a non-empty loop
C13_Witness ==
    /\ prog \in UncheckedLockPrograms /\ N > 0 /\ AllTerminated
    /\ \A w \in Workers : unlockCalls[w] = 1 /\ Len(WritesOf(w)) = N + 1

\* total a role leaves behind when it runs first
RoleTotal(w) == IF w = 0 THEN N + 1 ELSE 1 - N

\* C14: the value a worker prints right after taking the mutex is 0 or the
\* completed total of the other worker (N + 1 after the increment worker,
\* 1 - N after the decrement worker), never an intermediate loop value.
C14_NoIntermediateObserved ==
    prog \in IncDecPrograms =>
        \A w \in Workers : observed[w] \subseteq {0, RoleTotal(1 - w)}

\* each order happened: a worker saw the other's completed total
C14_Witness ==
    /\ prog \in IncDecPrograms /\ N > 1
    /\ \E w \in Workers : observed[w] = {RoleTotal(1 - w)} /\ observed[1 - w] = {0}

\* C15: when a program has ended, every allocation it obtained has been
\* released by free, and none was released twice.
C15_AllocationsFreed ==
    mem.pc = "exited" => (mem.live = {} /\ mem.frees <= 1)

\* y is x - 8 in the integers
IsMinus8(x, y) == x >= INT_MIN + 8 /\ y = x - 8
\* y is 2 * x in the integers
IsDouble(x, y) == y % 2 = 0 /\ y \div 2 = x

\* the terms are the series of the claim for length n and first term st
IsClaimedSeries(out, n, st) ==
    /\ Len(out) = n
    /\ out[1] = st
    /\ \A k \in 1 .. (n - 1) :
           IF k % 2 = 1 THEN IsMinus8(out[k], out[k + 1])
                        ELSE IsDouble(out[k], out[k + 1])

SeriesEnded == series.pc \in {"done", "aborted"}

\* C16 as stated: for every n >= 1 generate_series prints exactly n terms,
\* the first is start and each later one is the previous one minus 8 (1st,
\* 3rd, ... step) or times 2 (2nd, 4th, ... step); for n <= 0 it prints no
\* term and reports an invalid length.
C16_Original ==
    SeriesEnded =>
        IF series.n0 >= 1
        THEN ~series.invalid /\ IsClaimedSeries(series.out, series.n0, series.start0)
        ELSE series.invalid /\ series.out = << >>

\* C16 (amended): the same, for the calls in which no term leaves the range
\* of int.
C16_SeriesWithinInt ==
    (SeriesEnded /\ ~series.overflowed) =>
        IF series.n0 >= 1
        THEN ~series.invalid /\ IsClaimedSeries(series.out, series.n0, series.start0)
        ELSE series.invalid /\ series.out = << >>

\* generate_series(7, 55) printed the seven terms of hack02
C16_Witness ==
    /\ series.pc = "done" /\ series.n0 = 7 /\ series.start0 = 55
    /\ series.out = <<55, 47, 94, 86, 172, 164, 328>>

\* C17: safe_system_command returns 0 exactly when the command was executed
\* and exited normally with status 0; it returns -1 for a NULL command, which
\* is not executed, when system() fails, when the command exits with a
\* non-zero status and when it terminates abnormally.
C17_ZeroIffCleanExit ==
    syscmd.pc = "done" =>
        /\ syscmd.ret \in {0, -1}
        /\ syscmd.ret = 0 <=>
               (syscmd.executed /\ syscmd.outcome.kind = "exit" /\ syscmd.outcome.code = 0)
        /\ syscmd.commandNull => (syscmd.ret = -1 /\ ~syscmd.executed)

\* a command that exited with status 0 was reported as success
C17_Witness ==
    /\ syscmd.pc = "done" /\ syscmd.ret = 0
    /\ syscmd.executed /\ syscmd.outcome = [kind |-> "exit", code |-> 0, core |-> FALSE]

PipeValid ==
    ~pipecmd.commandNull /\ ~pipecmd.outputNull /\ pipecmd.output_size >= 1

\* C18: execute_command_with_output never writes outside the caller's buffer;
\* when it returns after reading the output of the command, with
\* output_size >= 1, bytes_read <= output_size - 1 and output[bytes_read] is
\* the terminator; with a NULL command, a NULL buffer or output_size 0 it
\* returns -1 without running the command or touching the buffer.
C18_BufferBounded ==
    /\ pipecmd.pc # "idle" => ~pipecmd.outside
    /\ (pipecmd.pc \in {"pclose", "done"} /\ pipecmd.ran) =>
           /\ pipecmd.output_size >= 1
           /\ pipecmd.bytes_read <= pipecmd.output_size - 1
           /\ pipecmd.output[pipecmd.bytes_read] = "nul"
    /\ (pipecmd.pc = "done" /\ ~PipeValid) =>
           /\ pipecmd.ret = -1
           /\ ~pipecmd.ran
           /\ \A j \in DOMAIN pipecmd.output : pipecmd.output[j] = Garbage

\* a call returned after two fgets calls filled part of the buffer
C18_Witness ==
    /\ pipecmd.pc = "done" /\ pipecmd.ran /\ pipecmd.output_size = MaxBuf
    /\ pipecmd.bytes_read = 2
    /\ pipecmd.output[0] = "nl" /\ pipecmd.output[1] = "a" /\ pipecmd.output[2] = "nul"

Max2(x, y) == IF x >= y THEN x ELSE y
Min2(x, y) == IF x <= y THEN x ELSE y

\* C19 as stated: for all 32-bit signed a and b, with a - b taken modulo
\* 2^32, the first expression equals max(a, b) and the second min(a, b).
C19_Original ==
    minmax.pc = "done" =>
        /\ minmax.max_val = Max2(minmax.a, minmax.b)
        /\ minmax.min_val = Min2(minmax.a, minmax.b)

\* C19 (amended): the expressions equal max(a, b) and min(a, b) for the a
\* and b whose difference a - b lies in the range of int; when the difference
\* wraps, its sign is the wrong one and the two results are exchanged.
C19_MinMaxWithinInt ==
    minmax.pc = "done" =>
        IF minmax.overflowed
        THEN /\ minmax.max_val = Min2(minmax.a, minmax.b)
             /\ minmax.min_val = Max2(minmax.a, minmax.b)
        ELSE /\ minmax.max_val = Max2(minmax.a, minmax.b)
             /\ minmax.min_val = Min2(minmax.a, minmax.b)

\* the operands of the program, and a negative difference
C19_Witness ==
    /\ minmax.pc = "done" /\ ~minmax.overflowed
    /\ \/ minmax.a = 25 /\ minmax.b = 17 /\ minmax.max_val = 25 /\ minmax.min_val = 17
       \/ minmax.a = -17 /\ minmax.b = 25 /\ minmax.max_val = 25 /\ minmax.min_val = -17

\* what the claim says a choice does: the demonstrations it runs, whether the
\* invalid-choice message is printed, whether the loop goes on
ClaimedEntry(c) ==
    [choice |-> c,
     demos |-> IF c \in 1 .. 6 THEN <<c>> ELSE IF c = 7 THEN AllDemos ELSE << >>,
     invalid |-> c \notin 0 .. 7,
     running |-> c # 0]

\* C20: the menu loop goes on after every choice other than 0 (1-7 run their
\* demonstrations, any other integer only prints the invalid-choice message,
\* no demonstration runs for it) and stops, returning 0, exactly when choice
\* 0 is entered.
C20_MenuLoop ==
    menu.pc # "idle" =>
        /\ \A k \in 1 .. Len(menu.log) :
               /\ menu.log[k] = ClaimedEntry(menu.log[k].choice)
               /\ k < Len(menu.log) => menu.log[k].choice # 0
        /\ menu.running <=> (menu.log = << >> \/ menu.log[Len(menu.log)].choice # 0)
        /\ menu.pc \in {"read", "switch"} => menu.running
        /\ menu.pc = "done" <=> menu.ret = 0
        /\ menu.pc = "done" => ~menu.running

\* an invalid choice was answered by the message only, the loop went on and
\* stopped at the choice 0
C20_Witness ==
    /\ menu.pc = "done" /\ menu.ret = 0 /\ Len(menu.log) = 2
    /\ menu.log[1].choice = 9 /\ menu.log[1].invalid /\ menu.log[1].demos = << >>
    /\ menu.log[2].choice = 0


\* a created worker holds the mutex or is blocked in pthread_mutex_lock
UsesMutex(w) == pcW[w] = "WaitingForLock" \/ InCS(w)

\* C21: on every path of main of pthread_mutex_demo, the path on which the
\* second pthread_create fails included, the mutex is destroyed and main has
\* returned only when no created worker holds the mutex or waits for it.
C21_DestroyedOnlyWhenUnused ==
    prog = "pthread_mutex_demo" =>
        ((mutex_state = "destroyed" \/ pcMain = "exited") =>
             \A w \in Workers : ~UsesMutex(w))


\* the counter after the workers whose lock call succeeded have finished
TotalOfSucceeded ==
    (IF 0 \in lockFailed THEN 0 ELSE N + 1) + (IF 1 \in lockFailed THEN 0 ELSE 1 - N)

\* C22: when a worker's pthread_mutex_lock call fails, that worker terminates
\* without reading or writing shared_counter and without calling
\* pthread_mutex_unlock; the other worker makes all its adjustments under the
\* mutex and main still joins both workers and reports a value.
C22_LockFailureIsLocal ==
    prog = "pthread_mutex_demo" =>
        /\ \A w \in lockFailed :
               /\ pcW[w] = "Terminated"
               /\ WritesOf(w) = << >>
               /\ \A a \in accesses : a.by # w
               /\ observed[w] = {}
               /\ lockCalls[w] = 0 /\ unlockCalls[w] = 0
        /\ \A v \in Workers \ lockFailed :
               (createFailAt = 0 /\ pcW[v] = "Terminated") =>
                   /\ Len(WritesOf(v)) = N + 1
                   /\ lockCalls[v] = 1 /\ unlockCalls[v] = 1
        /\ (pcMain = "exited" /\ createFailAt = 0 /\ ~initFails) =>
               /\ joined
               /\ reported = {TotalOfSucceeded}
               /\ exitStatus = EXIT_SUCCESS

\* the lock call of the decrement worker failed; main joined both workers
\* and reported the total of the increment worker
C22_Witness ==
    /\ prog = "pthread_mutex_demo" /\ N = 2 /\ lockFailed = {1}
    /\ pcMain = "exited" /\ joined /\ reported = {3}
    /\ pcW[1] = "Terminated" /\ Len(WritesOf(0)) = 3


\* the iteration counts of the sources: 0x1FFFFFF and 0xFFFFFFF
SourceIterations == {LOOP_ITERATIONS, HACK03_ITERATIONS}

C24_CleanupIdempotent ==
    /\ lifecycle.pc # "idle" =>
           /\ lifecycle.destroyCalls <= 1
           /\ lifecycle.destroyCalls = 1 => ~lifecycle.initFails
           /\ lifecycle.cleanups >= 1 => lifecycle.mutex_initialized = 0
           /\ lifecycle.cleanups >= 2 => LifeView(lifecycle) = lifecycle.afterFirst
    /\ prog = "pthread_mutex_demo" =>
           /\ mutex_initialized = 1 => (~initFails /\ mutex_state = "valid")
           /\ mutex_state = "destroyed" => ~initFails
           /\ pcMain \in {"return", "exited"} => mutex_initialized = 0

\* cleanup_resources was called twice after a successful initialize_mutex: the
\* mutex was destroyed once
C24_Witness ==
    /\ lifecycle.pc = "cleanup" /\ lifecycle.cleanups = 2 /\ ~lifecycle.initFails
    /\ lifecycle.destroyCalls = 1 /\ lifecycle.mutex_state = "destroyed"
    /\ lifecycle.mutex_initialized = 0


\* the positions of the 'started' messages in the output
StartedAt == {k \in 1 .. Len(jobs.log) : jobs.log[k].kind = "started"}

\* C25: in the simple job demo the two job threads get the distinct job
\* numbers 1 and 2, the 'started' and the 'finished' message of a job carry
\* the same number, no message of the other job appears between them, and
\* the job counter is 2 when both threads have been joined.
C25_JobsSerialised ==
    jobs.pc # "idle" =>
        /\ \A k \in 1 .. Len(jobs.log) :
               IF k % 2 = 1
               THEN jobs.log[k].kind = "started"
               ELSE /\ jobs.log[k].kind = "finished"
                    /\ jobs.log[k].job = jobs.log[k - 1].job
                    /\ jobs.log[k].number = jobs.log[k - 1].number
        /\ \A j, k \in StartedAt :
               j < k => (/\ jobs.log[j].job # jobs.log[k].job
                         /\ jobs.log[j].number = 1 /\ jobs.log[k].number = 2)
        /\ \A k \in StartedAt : jobs.log[k].number \in {1, 2}
        /\ (jobs.joined /\ jobs.createFailAt = 0) =>
               (jobs.job_counter = 2 /\ Len(jobs.log) = 4)

\* the second thread ran first: it is job 1, the first thread is job 2, and
\* main joined both
C25_Witness ==
    /\ jobs.pc # "idle" /\ jobs.joined /\ jobs.createFailAt = 0
    /\ jobs.job_counter = 2 /\ Len(jobs.log) = 4
    /\ jobs.log[1] = [job |-> 1, kind |-> "started", number |-> 1]
    /\ jobs.log[2] = [job |-> 1, kind |-> "finished", number |-> 1]
    /\ jobs.log[3] = [job |-> 0, kind |-> "started", number |-> 2]
    /\ jobs.log[4] = [job |-> 0, kind |-> "finished", number |-> 2]


\* C26: execute_command_with_output terminates for every command output: the
\* read loop, once entered, is left after finitely many fgets calls, also
\* when the output is longer than output_size - 1.
C26_ReadLoopTerminates ==
    (pipecmd.pc = "loop") ~> (pipecmd.pc = "pclose")

====
